---- MODULE Spec2Model ----
(***************************************************************************)
(* elba-bot: the polling Controller, the Publish Pipeline it dispatches,   *)
(* the Ledger (sqlite), and the Index / Store git repositories.            *)
(***************************************************************************)
EXTENDS Integers, Sequences, FiniteSets, TLC

(* ------------------------------ bounds -------------------------------- *)
\* comments ever posted on the tracking issue
MaxComments == 2
\* supervised restarts of the Controller (main's loop)
MaxRestarts == 1
\* server clock, in minutes
MaxTime == 2
\* publish commands dispatched before the pipelines are looked at alone
MaxTasks == 2

(* ------------------------- input domains ------------------------------ *)
\* github user ids; the bot is the authenticated viewer
Bot == 0
Users == {1, 2}

(* ------------------------- the command parser ------------------------- *)
\* a text is the sequence of its characters
\* CONFIG.bot_name, as the parser's tests have it
BotName == <<"n", "a", "m", "e">>
\* nom's multispace: space, tab, carriage return, line feed
Multispace == {" ", "\t", "\r", "\n"}
\* U+00A0, a White_Space character that is not in nom's multispace
Nbsp == "nbsp"
\* char::is_whitespace, on the characters the texts are made of
IsWhitespace(c) == c \in Multispace \cup {Nbsp}

\* IResult: Ok((rest, out)) or Err
Ok(rest, out) == [ok |-> TRUE, rest |-> rest, out |-> out]
Err == [ok |-> FALSE, rest |-> <<>>, out |-> <<>>]

RECURSIVE Multispace0(_)
\* multispace0: zero or more multispace characters
Multispace0(i) ==
  IF i # <<>> /\ Head(i) \in Multispace
  THEN Multispace0(Tail(i))
  ELSE Ok(i, <<>>)
\* multispace1: one or more
Multispace1(i) ==
  IF i # <<>> /\ Head(i) \in Multispace THEN Multispace0(Tail(i)) ELSE Err

\* tag(t): the input starts with t
Tag(t, i) ==
  IF Len(i) >= Len(t) /\ SubSeq(i, 1, Len(t)) = t
  THEN Ok(SubSeq(i, Len(t) + 1, Len(i)), t)
  ELSE Err

RECURSIVE TakeWord(_)
\* the longest prefix without whitespace
TakeWord(i) ==
  IF i = <<>> \/ IsWhitespace(Head(i)) THEN <<>> ELSE <<Head(i)>> \o TakeWord(Tail(i))
\* word: take_while1(|c| !c.is_whitespace())
Word(i) ==
  LET w == TakeWord(i)
  IN IF w = <<>> THEN Err ELSE Ok(SubSeq(i, Len(w) + 1, Len(i)), w)

\* mention(bot_name): tag("@"), tag(bot_name)
MentionWhole(bot_name, i) ==
  LET at == Tag(<<"@">>, i)
      name == Tag(bot_name, at.rest)
  IN IF ~at.ok \/ ~name.ok THEN Err
     ELSE IF name.rest # <<>> /\ ~IsWhitespace(Head(name.rest)) THEN Err
     ELSE Ok(name.rest, <<>>)
Mention(bot_name, i) ==
  LET at == Tag(<<"@">>, i)
  IN IF ~at.ok THEN Err
     ELSE LET name == Tag(bot_name, at.rest)
          IN IF ~name.ok THEN Err ELSE Ok(name.rest, <<>>)

\* Option<String>: None
NoRef == <<>>
\* Command::Publish { git, refname }
Publish(git, refname) == [git |-> git, refname |-> refname]

\* parse_publish: tag("/publish"), multispace1, word, opt(multispace1 word)
ParsePublish(i) ==
  LET kw == Tag(<<"/", "p", "u", "b", "l", "i", "s", "h">>, i)
      sp == IF kw.ok THEN Multispace1(kw.rest) ELSE Err
      git == IF sp.ok THEN Word(sp.rest) ELSE Err
      sp2 == IF git.ok THEN Multispace1(git.rest) ELSE Err
      ref == IF sp2.ok THEN Word(sp2.rest) ELSE Err
  IN IF ~git.ok THEN Err
     ELSE IF ref.ok THEN Ok(ref.rest, Publish(git.out, ref.out))
     ELSE Ok(git.rest, Publish(git.out, NoRef))

\* parse_command: the outcome is an error, no command, or the command
ParseCommand(i, bot_name) ==
  LET lead == Multispace0(i)
      mention == Mention(bot_name, lead.rest)
  IN IF ~mention.ok THEN [kind |-> "NoCommand", command |-> Publish(<<>>, NoRef)]
     ELSE LET sp == Multispace1(mention.rest)
              command == IF sp.ok THEN ParsePublish(sp.rest) ELSE Err
          IN IF ~command.ok THEN [kind |-> "Err", command |-> Publish(<<>>, NoRef)]
             ELSE [kind |-> "Publish", command |-> command.out]

\* the comment bodies that get posted: a publish command, a command the
\* parser refuses, and a text that does not address the bot
PublishText ==
  <<"@">> \o BotName \o <<" ", "/", "p", "u", "b", "l", "i", "s", "h", " ", "x">>
MalformedText == <<"@">> \o BotName \o <<" ", "/", "p", "u", "b", " ", "x">>
PlainText == <<"h", "i">>
Bodies == {PublishText, MalformedText, PlainText}

\* manifests the artifact builder can return: group, name, version
Manifests ==
  { [group |-> 1, name |-> 1, version |-> 1],
    [group |-> 1, name |-> 1, version |-> 2],
    [group |-> 1, name |-> 2, version |-> 1],
    [group |-> 2, name |-> 1, version |-> 1] }
NoManifest == [group |-> 0, name |-> 0, version |-> 0]
\* manifest.dependencies of the built package, each by the variant of its
\* DepReq; kept next to the manifest in the task
Dependencies == {<<"Registry">>, <<"Git">>}
NoDependencies == <<>>
PkgNames == { <<m.group, m.name>> : m \in Manifests }

\* chrono::Duration::minutes(1), the clock counting minutes
OneMinute == 1
\* last_date = None
NoDate == -1

(* PublishStep, in the order its derived Ord gives *)
Block == 0
Pull == 1
Verify == 2
Upload == 3
UpdateIndex == 4
Done == 5

\* Controller::run as the holder of a Mutex; tasks hold as their position
Run == -1

VARIABLES
  now,          \* the server clock (the Date header of a response)
  issue,        \* the issue's comments: id = position
  epoch,        \* the Controller instances constructed by main so far
  cpc,          \* where Controller::run stands: poll, filter, save, exec, failed
  cerr,         \* the error Controller::run returned
  last_date,    \* run's last_date
  batch,        \* the comments of resp.val the for loop has not finished
  resp_date,    \* resp.date of the response being processed
  users,        \* Ledger table users (ids)
  comments,     \* Ledger table comments (the rows' ids)
  packages,     \* Ledger table packages (rows in insertion order)
  tasks,        \* the spawned publish tasks, in dispatch order
  workspace,    \* per Controller instance: the holder of Mutex<Workspace>
  database,     \* per Controller instance: the holder of Mutex<Database>
  storeRemote, storeLocal,   \* the Store repository: origin and checkout
  indexRemote, indexLocal    \* the Index repository: origin and checkout

envVars == <<now, issue>>
ctrlVars == <<epoch, cpc, cerr, last_date, batch, resp_date>>
ledgerVars == <<users, comments, packages>>
repoVars == <<storeRemote, storeLocal, indexRemote, indexLocal>>
vars == <<now, issue, epoch, cpc, cerr, last_date, batch, resp_date, users,
          comments, packages, tasks, workspace, database, storeRemote,
          storeLocal, indexRemote, indexLocal>>

(* ------------------------------ helpers ------------------------------- *)
Range(s) == { s[i] : i \in DOMAIN s }

RECURSIVE SetToSeq(_)
\* the ids of a response in ascending order
SetToSeq(S) ==
  IF S = {} THEN <<>>
  ELSE LET x == CHOOSE y \in S : \A z \in S : y <= z
       IN <<x>> \o SetToSeq(S \ {x})

(* ------------------------------ reports ------------------------------- *)
\* what the comment shows below its body: nothing yet, the CommandError
\* report, or a PublishState report (step, error)
NoReport == [title |-> "none", step |-> Block, error |-> "None", name |-> NoManifest]
CommandError == [title |-> "Command Error", step |-> Block, error |-> "None",
                 name |-> NoManifest]
RenderPublish(t) == [title |-> "Publish Package", step |-> t.step,
                     error |-> t.error, name |-> t.name]

\* Github::update_comment, when the PATCH succeeds
UpdateComment(c, report) == [issue EXCEPT ![c].report = report]

(* ------------------------------ ledger -------------------------------- *)
QueryComment(c) == \E i \in DOMAIN comments : comments[i] = c
\* insert_comment, the id being new
InsertCommentLost(c) == comments
InsertComment(c) == Append(comments, c)
InsertUser(u) == users \cup {u}
QueryUser(u) == u \in users
\* query_package(Some(group)) / query_package(None)
QueryPackage(group) == SelectSeq(packages, LAMBDA p : p.group = group)
QueryAllPackages == packages
PackageKeyExists(p) ==
  \E i \in DOMAIN packages :
    /\ packages[i].group = p.group
    /\ packages[i].name = p.name
    /\ packages[i].version = p.version

(* ---------------------------- repositories ---------------------------- *)
\* a repository state: the commits on master and the tree of its tip
EmptyIndexFiles == [n \in PkgNames |-> <<>>]
InitStore == [commits |-> 0, files |-> {}]
\* a file of the Store tree: the tarball's name and its content
StoreFile(name, blob) == [name |-> name, blob |-> blob]
InitIndex == [commits |-> 0, files |-> EmptyIndexFiles, readme |-> <<>>]

\* the checkout holds a commit that the remote does not have
Ahead(local, remote) == local.commits > remote.commits

\* Repo::fetch_and_reset, the heads the checkout can be at afterwards. The
\* fetch names refs/heads/master:refs/heads/master without a leading '+':
\* when the local master is ahead of the remote tip, a libgit2 that honours
\* the refspec leaves the branch where it is and one that forces every
\* update moves it to the fetched tip; set_head and the forced checkout_head
\* then check out whatever master points to.
FetchForced(local, remote) == remote
FetchHonoured(local, remote) == IF Ahead(local, remote) THEN local ELSE remote
FetchAndReset(local, remote) ==
  {FetchForced(local, remote), FetchHonoured(local, remote)}

\* CONFIG.store_max_size, and the tarball sizes tried against it
StoreMaxSize == 2
Sizes == {StoreMaxSize, StoreMaxSize + 1}
\* the size check of upload_package: only size > store_max_size bails
WithinLimitBelow(size) == size < StoreMaxSize
WithinLimit(size) == ~(size > StoreMaxSize)

\* tarball_name: <group>_<name>_<version>.tar.gz
TarballName(m) == <<m.group, m.name, m.version>>
\* the tarball the builder packs for a manifest, and a corrupted copy
Tarball(m) == m.group * 100 + m.name * 10 + m.version
Corrupted == 0
\* hex(Sha256(content))
Sha256(blob) == (blob * 31 + 7) % 1009
\* github_raw_url(head_hash, manifest)
GithubRawUrl(head, m) == [head |-> head, tarball |-> TarballName(m)]
\* DirectRes::Tar { url, cksum }
Location(url, cksum) == [url |-> url, cksum |-> cksum]
NoLocation == [url |-> [head |-> 0, tarball |-> <<0, 0, 0>>], cksum |-> 0]

\* the Store checkout after the copy and the commit
StoreCommit(repo, m) ==
  [commits |-> repo.commits + 1,
   files |-> { f \in repo.files : f.name # TarballName(m) }
               \cup {StoreFile(TarballName(m), Tarball(m))}]
\* the pushed Store as the raw download serves it when the copy is damaged
Damaged(repo, m) ==
  [repo EXCEPT !.files = { f \in repo.files : f.name # TarballName(m) }
                           \cup {StoreFile(TarballName(m), Corrupted)}]
\* reqwest::blocking::get(raw_url): the content served for the tarball
Download(repo, m) == (CHOOSE f \in repo.files : f.name = TarballName(m)).blob
\* the comparison of the two digests: a mismatch bails
VerifiedAlways(download_cksum, cksum) == TRUE
Verified(download_cksum, cksum) == ~(download_cksum # cksum)

\* commit_and_push when the remote rejects the push: one push, the error is
\* returned, the remote stays as it was
PushRejectedRetried(remote, committed) == committed
PushRejected(remote, committed) == remote

\* the loop of Entries::insert over manifest.dependencies: a DepReq that is
\* not DepReq::Registry bails with NonIndexDependency
NonIndexDependencyNever(dependencies) == FALSE
NonIndexDependency(dependencies) ==
  \E k \in DOMAIN dependencies : dependencies[k] # "Registry"

\* Entries::insert: drop the entry of the same name and version, push the new
EntriesInsertPush(entries, m, location) ==
  Append(entries, [name |-> <<m.group, m.name>>, version |-> m.version,
                   location |-> location])
EntriesInsert(entries, m, location) ==
  Append(SelectSeq(entries, LAMBDA other :
                     other.name # <<m.group, m.name>> \/ other.version # m.version),
         [name |-> <<m.group, m.name>>, version |-> m.version,
          location |-> location])

\* the Index checkout after Entries::save and the commit
IndexCommitEntriesUnsaved(repo, m, entries) == [repo EXCEPT !.commits = @ + 1]
IndexCommitEntries(repo, m, entries) ==
  [repo EXCEPT !.commits = @ + 1, !.files[<<m.group, m.name>>] = entries]
\* the Index checkout after README.md is rewritten and committed
IndexCommitReadme(repo, list) ==
  [repo EXCEPT !.commits = @ + 1, !.readme = list]

\* the comparator of render_readme_package_list's sort_by:
\* (a.group, a.name, b.version) < (b.group, b.name, a.version)
ListLessAscending(a, b) ==
  \/ a.group < b.group
  \/ a.group = b.group /\ a.name < b.name
  \/ a.group = b.group /\ a.name = b.name /\ a.version < b.version
ListLess(a, b) ==
  \/ a.group < b.group
  \/ a.group = b.group /\ a.name < b.name
  \/ a.group = b.group /\ a.name = b.name /\ b.version < a.version

RECURSIVE SortBy(_)
\* Vec::sort_by, a stable sort: insert the last element behind its equals
SortBy(s) ==
  IF s = <<>> THEN <<>>
  ELSE LET n == Len(s)
           rest == SortBy(SubSeq(s, 1, n - 1))
           x == s[n]
           before == SelectSeq(rest, LAMBDA y : ~ListLess(x, y))
           after == SelectSeq(rest, LAMBDA y : ListLess(x, y))
       IN before \o <<x>> \o after

DedupByNone(s) == s
RECURSIVE DedupBy(_)
\* Vec::dedup_by on (group, name): of a run of equals the first is kept
DedupBy(s) ==
  IF Len(s) <= 1 THEN s
  ELSE LET n == Len(s)
           front == DedupBy(SubSeq(s, 1, n - 1))
           prev == front[Len(front)]
       IN IF s[n].group = prev.group /\ s[n].name = prev.name
          THEN front
          ELSE Append(front, s[n])

\* render_readme_package_list: one line per package of the sorted, deduped rows
RenderReadmePackageList(rows) ==
  LET kept == DedupBy(SortBy(rows))
  IN [i \in DOMAIN kept |->
        [group |-> kept[i].group, name |-> kept[i].name,
         version |-> kept[i].version, user |-> kept[i].user_id]]

\* check_publish_permission: the owner rule, then the duplicate rule
CheckPublishPermissionExistsFirst(m, user) ==
  LET packages_in_group == QueryPackage(m.group)
  IN IF \E i \in DOMAIN packages_in_group :
          /\ packages_in_group[i].name = m.name
          /\ packages_in_group[i].version = m.version
     THEN "PackageExists"
     ELSE IF \E i \in DOMAIN packages_in_group :
               packages_in_group[i].user_id # user
          THEN "NamespaceIsTaken"
          ELSE "Ok"
CheckPublishPermissionOwnerOnly(m, user) ==
  LET packages_in_group == QueryPackage(m.group)
  IN IF \E i \in DOMAIN packages_in_group :
          packages_in_group[i].user_id # user
     THEN "NamespaceIsTaken"
     ELSE "Ok"
CheckPublishPermission(m, user) ==
  LET packages_in_group == QueryPackage(m.group)
  IN IF \E i \in DOMAIN packages_in_group :
          packages_in_group[i].user_id # user
     THEN "NamespaceIsTaken"
     ELSE IF \E i \in DOMAIN packages_in_group :
               /\ packages_in_group[i].name = m.name
               /\ packages_in_group[i].version = m.version
          THEN "PackageExists"
          ELSE "Ok"

Init ==
  /\ now = 0
  /\ issue = <<>>
  /\ epoch = 1
  /\ cpc = "poll"
  /\ cerr = "None"
  /\ last_date = NoDate
  /\ batch = <<>>
  /\ resp_date = 0
  /\ users = {}
  /\ comments = <<>>
  /\ packages = <<>>
  /\ tasks = <<>>
  /\ workspace = [e \in 1..(MaxRestarts + 1) |-> 0]
  /\ database = [e \in 1..(MaxRestarts + 1) |-> 0]
  /\ storeRemote = InitStore
  /\ storeLocal = InitStore
  /\ indexRemote = InitIndex
  /\ indexLocal = InitIndex

(* ---------------------------- environment ----------------------------- *)
\* the comments that get written: author and body
Posts == {<<1, PublishText>>, <<2, PublishText>>, <<1, MalformedText>>,
          <<2, PlainText>>, <<Bot, PublishText>>}

\* somebody (a user, or the bot account) comments on the tracking issue; the
\* server clock may have moved on since it was last read
PostComment ==
  /\ Len(issue) < MaxComments
  /\ \E t \in now..MaxTime, p \in Posts :
       /\ now' = t
       /\ issue' = Append(issue, [user |-> p[1], body |-> p[2], created_at |-> t,
                                  report |-> NoReport])
  /\ UNCHANGED <<ctrlVars, ledgerVars, tasks, workspace, database, repoVars>>

(* ----------------------------- Controller ----------------------------- *)
\* Command::from_str on the body
FromStrLenient(body) ==
  IF ParseCommand(body, BotName).kind = "Publish" THEN "Publish" ELSE "NoCommand"
FromStr(body) == ParseCommand(body, BotName).kind

\* the three skip rules of the for loop
SkipEarlyInclusive(c) == issue[c].created_at <= last_date - OneMinute
SkipEarly(c) == issue[c].created_at < last_date - OneMinute
SkipMyself(c) == issue[c].user = Bot
SkipLedgeredNever(c) == FALSE
SkipLedgered(c) == QueryComment(c)

\* last_date.is_none()
IsNoneNever(date) == FALSE
IsNone(date) == date = NoDate

\* the tasks the for loop waits for: tokio::task::spawn returns at once and
\* its JoinHandle is dropped
AwaitedAll(ts) == DOMAIN ts
Awaited(ts) == {}
Continues == \A i \in Awaited(tasks) : tasks[i].pc = "end"

\* a `?` in run returns the error to main: run's locals are gone
RunFails(e) ==
  /\ cpc' = "failed"
  /\ cerr' = e
  /\ last_date' = NoDate
  /\ batch' = <<>>
  /\ resp_date' = 0

\* query_poll answers with the comments and the server's Date; the first
\* answer only sets last_date
Poll ==
  /\ cpc = "poll"
  /\ \/ /\ \E t \in now..MaxTime :
             /\ now' = t
             /\ IF IsNone(last_date)
                THEN /\ last_date' = t
                     /\ UNCHANGED <<cpc, batch, resp_date>>
                ELSE /\ \E S \in SUBSET (DOMAIN issue) : batch' = SetToSeq(S)
                     /\ resp_date' = t
                     /\ cpc' = "filter"
                     /\ UNCHANGED last_date
        /\ UNCHANGED cerr
     \/ /\ RunFails("Github")
        /\ UNCHANGED now
     \/ \* a 200 answer without ETag or Date: the unwrap panics, the
        \* JoinError leaves main through its `?`
        /\ cpc' = "panicked"
        /\ cerr' = "JoinError"
        /\ last_date' = NoDate
        /\ UNCHANGED <<now, batch, resp_date>>
  /\ UNCHANGED <<epoch, issue, ledgerVars, tasks, workspace, database, repoVars>>

\* the Mutex<Database> of a Controller instance is free
DatabaseFree(e) == database[e] = 0
\* a MutexGuard of the database held by h is dropped
UnlockedNever(e, h) == database
Unlocked(e, h) == [database EXCEPT ![e] = IF @ = h THEN 0 ELSE @]

\* self.database.lock().await in run: for query_comment, once the first two
\* skip rules have let the comment through, and again for the writes
LockDatabaseRun ==
  /\ \/ /\ cpc = "filter"
        /\ batch # <<>>
        /\ Continues
        /\ ~(SkipEarly(Head(batch)) \/ SkipMyself(Head(batch)))
     \/ cpc = "save"
  /\ DatabaseFree(epoch)
  /\ database' = [database EXCEPT ![epoch] = Run]
  /\ UNCHANGED <<envVars, ctrlVars, ledgerVars, tasks, workspace, repoVars>>

\* one iteration of the for loop up to the ledger writes: the skip rules,
\* the third with the database locked for the condition of the `if`
Filter ==
  /\ cpc = "filter"
  /\ batch # <<>>
  /\ Continues
  /\ LET c == Head(batch) IN
     \/ /\ SkipEarly(c) \/ SkipMyself(c)
        /\ batch' = Tail(batch)
        /\ UNCHANGED <<cpc, database>>
     \/ /\ ~(SkipEarly(c) \/ SkipMyself(c))
        /\ database[epoch] = Run
        /\ database' = Unlocked(epoch, Run)
        /\ IF SkipLedgered(c)
           THEN /\ batch' = Tail(batch)
                /\ UNCHANGED cpc
           ELSE /\ cpc' = "save"
                /\ UNCHANGED batch
  /\ UNCHANGED <<epoch, cerr, last_date, resp_date, envVars, ledgerVars, tasks,
                 workspace, repoVars>>

\* the ledger writes of the iteration, in the block that holds the guard
Save ==
  /\ cpc = "save"
  /\ database[epoch] = Run
  /\ database' = Unlocked(epoch, Run)
  /\ LET c == Head(batch) IN
     /\ users' = InsertUser(issue[c].user)
     /\ IF QueryComment(c)
        THEN \* INSERT of an id that is there: the primary key refuses it
             /\ RunFails("Sqlite")
             /\ UNCHANGED comments
        ELSE /\ comments' = InsertComment(c)
             /\ cpc' = "exec"
             /\ UNCHANGED <<cerr, batch, last_date, resp_date>>
     /\ UNCHANGED packages
  /\ UNCHANGED <<epoch, envVars, tasks, workspace, repoVars>>

\* the task Controller::run spawns for a publish command: PublishState at
\* its construction, and the Controller the task holds on to
NewTask(c) ==
  [c |-> c, user |-> issue[c].user, ctrl |-> epoch, pc |-> "report_block",
   remote_url |-> ParseCommand(issue[c].body, BotName).command.git,
   refname |-> ParseCommand(issue[c].body, BotName).command.refname,
   step |-> Block, error |-> "None", name |-> NoManifest,
   manifest |-> NoManifest, dependencies |-> NoDependencies, size |-> 0,
   location |-> NoLocation, list |-> <<>>]

\* the rest of the iteration: parse the body, report or dispatch
Exec ==
  /\ cpc = "exec"
  /\ LET c == Head(batch) IN
     \/ /\ FromStr(issue[c].body) = "NoCommand"
        /\ batch' = Tail(batch)
        /\ cpc' = "filter"
        /\ UNCHANGED <<cerr, last_date, resp_date, issue, tasks>>
     \/ /\ FromStr(issue[c].body) = "Err"
        /\ \/ /\ issue' = UpdateComment(c, CommandError)
              /\ batch' = Tail(batch)
              /\ cpc' = "filter"
              /\ UNCHANGED <<cerr, last_date, resp_date>>
           \/ /\ RunFails("Github")
              /\ UNCHANGED issue
        /\ UNCHANGED tasks
     \/ /\ FromStr(issue[c].body) = "Publish"
        /\ tasks' = Append(tasks, NewTask(c))
        /\ batch' = Tail(batch)
        /\ cpc' = "filter"
        /\ UNCHANGED <<cerr, last_date, resp_date, issue>>
  /\ UNCHANGED <<now, epoch, ledgerVars, workspace, database, repoVars>>

\* the for loop is through: last_date = Some(resp.date), resp is dropped
EndBatch ==
  /\ cpc = "filter"
  /\ batch = <<>>
  /\ Continues
  /\ last_date' = resp_date
  /\ resp_date' = 0
  /\ cpc' = "poll"
  /\ UNCHANGED <<epoch, cerr, batch, envVars, ledgerVars, tasks, workspace, database, repoVars>>

\* main: run returned Err; after the delay a fresh Controller is built on the
\* same db_path and the same checkouts, with a Mutex<Workspace> of its own
Restart ==
  /\ cpc = "failed"
  /\ epoch <= MaxRestarts
  /\ epoch' = epoch + 1
  /\ cpc' = "poll"
  /\ cerr' = "None"
  /\ UNCHANGED <<last_date, batch, resp_date, envVars, ledgerVars, tasks,
                 workspace, database, repoVars>>

(* -------------------------- Publish Pipeline --------------------------- *)
\* the positions of tasks: no more tasks than dispatched comments
TaskIds == 1..(IF MaxComments > MaxTasks THEN MaxComments ELSE MaxTasks)

\* the workspace Mutex of a Controller instance is free
LockFreeAlways(e) == TRUE
LockFree(e) == workspace[e] = 0

\* the try block is left: its MutexGuard, if taken, is dropped
ReleaseNever(i) == workspace
Release(i) == [workspace EXCEPT ![tasks[i].ctrl] = IF @ = i THEN 0 ELSE @]

\* the Err arm of publish: state.error = Some(error), the step stays
Failed(t, e) ==
  [t EXCEPT !.error = e, !.pc = "report_err", !.size = 0, !.location = NoLocation,
            !.list = <<>>, !.dependencies = NoDependencies]

\* a `?` inside the try block fails task i with error e
Fail(i, e) ==
  /\ tasks' = [tasks EXCEPT ![i] = Failed(@, e)]
  /\ workspace' = Release(i)
  /\ database' = Unlocked(tasks[i].ctrl, i)

\* where the task goes once its step is reported
AfterReportNoLock(pc) ==
  CASE pc = "report_block" -> "pull"
    [] pc = "report_pull" -> "pull"
    [] pc = "report_verify" -> "build"
    [] pc = "report_upload" -> "upload"
AfterReportNoVerify(pc) ==
  CASE pc = "report_block" -> "lock"
    [] pc = "report_pull" -> "pull"
    [] pc = "report_verify" -> "upload"
    [] pc = "report_upload" -> "upload"
AfterReport(pc) ==
  CASE pc = "report_block" -> "lock"
    [] pc = "report_pull" -> "pull"
    [] pc = "report_verify" -> "build"
    [] pc = "report_upload" -> "upload"

\* update_report inside the try block: the comment shows the current step
ReportStep(i) ==
  /\ i \in DOMAIN tasks
  /\ tasks[i].pc \in {"report_block", "report_pull", "report_verify", "report_upload"}
  /\ \/ /\ issue' = UpdateComment(tasks[i].c, RenderPublish(tasks[i]))
        /\ tasks' = [tasks EXCEPT ![i].pc = AfterReport(@)]
        /\ UNCHANGED <<workspace, database>>
     \/ /\ Fail(i, "Github")
        /\ UNCHANGED issue
  /\ UNCHANGED <<now, ctrlVars, ledgerVars, repoVars>>

\* the steps the try block sets, each with the place the task goes to
Locked(t) == [t EXCEPT !.step = Pull, !.pc = "report_pull"]
PulledSkipVerify(t) == [t EXCEPT !.step = Upload, !.pc = "report_verify"]
Pulled(t) == [t EXCEPT !.step = Verify, !.pc = "report_verify"]
Permitted(t) == [t EXCEPT !.name = t.manifest, !.step = Upload, !.pc = "report_upload"]
Uploaded(t, location) ==
  [t EXCEPT !.location = location, !.step = UpdateIndex, !.pc = "update_package"]
Finished(t) ==
  [t EXCEPT !.step = Done, !.pc = "report_done", !.location = NoLocation, !.list = <<>>,
            !.dependencies = NoDependencies]

\* self.workspace.lock().await, then state.step = Pull
Lock(i) ==
  /\ i \in DOMAIN tasks
  /\ tasks[i].pc = "lock"
  /\ LockFree(tasks[i].ctrl)
  /\ workspace' = [workspace EXCEPT ![tasks[i].ctrl] = i]
  /\ tasks' = [tasks EXCEPT ![i] = Locked(@)]
  /\ UNCHANGED <<envVars, ctrlVars, ledgerVars, database, repoVars>>

\* Repo::clone of the caller's repository into a temp dir, and the checkout
PullRepo(i) ==
  /\ i \in DOMAIN tasks
  /\ tasks[i].pc = "pull"
  /\ \/ /\ tasks' = [tasks EXCEPT ![i] = Pulled(@)]
        /\ UNCHANGED <<workspace, database>>
     \/ Fail(i, "Git")
  /\ UNCHANGED <<envVars, ctrlVars, ledgerVars, repoVars>>

\* elba::cli::index::package on the pulled tree
Build(i) ==
  /\ i \in DOMAIN tasks
  /\ tasks[i].pc = "build"
  /\ \/ /\ \E m \in Manifests, size \in Sizes, dependencies \in Dependencies :
             tasks' = [tasks EXCEPT ![i].manifest = m, ![i].size = size,
                                    ![i].dependencies = dependencies,
                                    ![i].pc = "check"]
        /\ UNCHANGED <<workspace, database>>
     \/ Fail(i, "Build")
  /\ UNCHANGED <<envVars, ctrlVars, ledgerVars, repoVars>>

\* self.database.lock().await of check_publish_permission, of commit_publish
\* and of the statement that renders the package list
LockDatabase(i) ==
  /\ i \in DOMAIN tasks
  /\ tasks[i].pc \in {"check", "commit_publish", "render"}
  /\ DatabaseFree(tasks[i].ctrl)
  /\ database' = [database EXCEPT ![tasks[i].ctrl] = i]
  /\ UNCHANGED <<envVars, ctrlVars, ledgerVars, tasks, workspace, repoVars>>

\* check_publish_permission, then state.name and state.step = Upload
Check(i) ==
  /\ i \in DOMAIN tasks
  /\ tasks[i].pc = "check"
  /\ database[tasks[i].ctrl] = i
  /\ LET verdict == CheckPublishPermission(tasks[i].manifest, tasks[i].user) IN
     \/ /\ verdict = "Ok"
        /\ tasks' = [tasks EXCEPT ![i] = Permitted(@)]
        /\ database' = Unlocked(tasks[i].ctrl, i)
        /\ UNCHANGED workspace
     \/ /\ verdict # "Ok"
        /\ Fail(i, verdict)
  /\ UNCHANGED <<envVars, ctrlVars, ledgerVars, repoVars>>

\* Store::upload_package
UploadPackage(i) ==
  /\ i \in DOMAIN tasks
  /\ tasks[i].pc = "upload"
  /\ \E fetched \in FetchAndReset(storeLocal, storeRemote) :
     LET m == tasks[i].manifest
         committed == StoreCommit(fetched, m)
         cksum == Sha256(Tarball(m))
     IN
     IF ~WithinLimit(tasks[i].size)
     THEN \* the size limit
          /\ Fail(i, "PackageOversize")
          /\ UNCHANGED <<storeLocal, storeRemote>>
     ELSE
     \/ \* the fetch fails
        /\ Fail(i, "Git")
        /\ UNCHANGED <<storeLocal, storeRemote>>
     \/ \* the push is rejected: the commit stays in the checkout
        /\ storeLocal' = committed
        /\ storeRemote' = PushRejected(storeRemote, committed)
        /\ Fail(i, "GitPush")
     \/ \* pushed; the raw download is hashed and compared
        /\ storeLocal' = committed
        /\ \E served \in {committed, Damaged(committed, m)} :
             /\ storeRemote' = served
             /\ IF ~Verified(Sha256(Download(served, m)), cksum)
                THEN Fail(i, "DownloadVerification")
                ELSE /\ tasks' = [tasks EXCEPT ![i] =
                                  Uploaded(@, Location(GithubRawUrl(committed.commits, m),
                                                       cksum))]
                     /\ UNCHANGED <<workspace, database>>
  /\ UNCHANGED <<envVars, ctrlVars, ledgerVars, indexRemote, indexLocal>>

\* Index::update_package
UpdatePackage(i) ==
  /\ i \in DOMAIN tasks
  /\ tasks[i].pc = "update_package"
  /\ \E fetched \in FetchAndReset(indexLocal, indexRemote) :
     LET m == tasks[i].manifest
         entries == EntriesInsert(fetched.files[<<m.group, m.name>>], m,
                                  tasks[i].location)
         committed == IndexCommitEntries(fetched, m, entries)
     IN
     \/ \* the fetch fails
        /\ Fail(i, "Git")
        /\ UNCHANGED <<indexLocal, indexRemote>>
     \/ \* a dependency that is not DepReq::Registry
        /\ NonIndexDependency(tasks[i].dependencies)
        /\ indexLocal' = fetched
        /\ Fail(i, "NonIndexDependency")
        /\ UNCHANGED indexRemote
     \/ \* the push is rejected
        /\ ~NonIndexDependency(tasks[i].dependencies)
        /\ indexLocal' = committed
        /\ indexRemote' = PushRejected(indexRemote, committed)
        /\ Fail(i, "GitPush")
     \/ /\ ~NonIndexDependency(tasks[i].dependencies)
        /\ indexLocal' = committed
        /\ indexRemote' = committed
        /\ tasks' = [tasks EXCEPT ![i].pc = "commit_publish"]
        /\ UNCHANGED <<workspace, database>>
  /\ UNCHANGED <<envVars, ctrlVars, ledgerVars, storeRemote, storeLocal>>

\* commit_publish: insert_user, then insert_package (UNIQUE on the key)
CommitPublish(i) ==
  /\ i \in DOMAIN tasks
  /\ tasks[i].pc = "commit_publish"
  /\ database[tasks[i].ctrl] = i
  /\ LET m == tasks[i].manifest
         row == [group |-> m.group, name |-> m.name, version |-> m.version,
                 user_id |-> tasks[i].user]
     IN
     /\ users' = InsertUser(tasks[i].user)
     /\ \/ \* insert_package errs: the key is taken, or the Ledger fails
           /\ Fail(i, "Sqlite")
           /\ UNCHANGED packages
        \/ /\ ~PackageKeyExists(row)
           /\ packages' = Append(packages, row)
           /\ tasks' = [tasks EXCEPT ![i].pc = "render"]
           /\ database' = Unlocked(tasks[i].ctrl, i)
           /\ UNCHANGED workspace
  /\ UNCHANGED <<envVars, ctrlVars, comments, repoVars>>

\* render_readme_package_list over the Ledger
Render(i) ==
  /\ i \in DOMAIN tasks
  /\ tasks[i].pc = "render"
  /\ database[tasks[i].ctrl] = i
  /\ tasks' = [tasks EXCEPT ![i].list = RenderReadmePackageList(QueryAllPackages),
                            ![i].pc = "update_readme"]
  /\ database' = Unlocked(tasks[i].ctrl, i)
  /\ UNCHANGED <<envVars, ctrlVars, ledgerVars, workspace, repoVars>>

\* Index::update_readme; on success the try block ends: the guard is dropped
\* and state.step = Done
UpdateReadme(i) ==
  /\ i \in DOMAIN tasks
  /\ tasks[i].pc = "update_readme"
  /\ \E fetched \in FetchAndReset(indexLocal, indexRemote) :
     LET committed == IndexCommitReadme(fetched, tasks[i].list)
     IN
     \/ /\ Fail(i, "Git")
        /\ UNCHANGED <<indexLocal, indexRemote>>
     \/ /\ indexLocal' = committed
        /\ indexRemote' = PushRejected(indexRemote, committed)
        /\ Fail(i, "GitPush")
     \/ /\ indexLocal' = committed
        /\ indexRemote' = committed
        /\ tasks' = [tasks EXCEPT ![i] = Finished(@)]
        /\ workspace' = Release(i)
        /\ UNCHANGED database
  /\ UNCHANGED <<envVars, ctrlVars, ledgerVars, storeRemote, storeLocal>>

\* the update_report of the match arms; publish returns after it either way
ReportFinal(i) ==
  /\ i \in DOMAIN tasks
  /\ tasks[i].pc \in {"report_done", "report_err"}
  /\ \/ issue' = UpdateComment(tasks[i].c, RenderPublish(tasks[i]))
     \/ UNCHANGED issue
  /\ tasks' = [tasks EXCEPT ![i].pc = "end"]
  /\ UNCHANGED <<now, ctrlVars, ledgerVars, workspace, database, repoVars>>

\* a step of the poller or of the issue
Controller ==
  \/ PostComment
  \/ Poll
  \/ LockDatabaseRun
  \/ Filter
  \/ Save
  \/ Exec
  \/ EndBatch
  \/ Restart

\* a step of a spawned publish task
Pipeline ==
  \E i \in TaskIds :
    \/ ReportStep(i)
    \/ Lock(i)
    \/ PullRepo(i)
    \/ Build(i)
    \/ LockDatabase(i)
    \/ Check(i)
    \/ UploadPackage(i)
    \/ UpdatePackage(i)
    \/ CommitPublish(i)
    \/ Render(i)
    \/ UpdateReadme(i)
    \/ ReportFinal(i)

\* the whole program
Next == Controller \/ Pipeline
Spec == Init /\ [][Next]_vars

\* the poller alone: the tasks it spawns are not scheduled
SpecCtl == Init /\ [][Controller]_vars

\* the poller next to tasks that report, take the workspace lock and hold it
Holding == \E i \in TaskIds : ReportStep(i) \/ Lock(i)
SpecPoll == Init /\ [][Controller \/ Holding]_vars

(* The pipelines alone, from the states of Spec in which the poller has     *)
(* dispatched MaxTasks publish commands and no task has been scheduled yet: *)
(* all by the first Controller, or the last one by a Controller that main   *)
(* built after a failed poll.                                               *)
PublishComment(u) ==
  [user |-> u, body |-> PublishText, created_at |-> 0, report |-> NoReport]

DispatchedBy(c, u, e) ==
  [c |-> c, user |-> u, ctrl |-> e, pc |-> "report_block",
   remote_url |-> ParseCommand(PublishText, BotName).command.git,
   refname |-> ParseCommand(PublishText, BotName).command.refname, step |-> Block,
   error |-> "None", name |-> NoManifest, manifest |-> NoManifest,
   dependencies |-> NoDependencies, size |-> 0, location |-> NoLocation,
   list |-> <<>>]

InitPub ==
  /\ now = 0
  /\ cpc = "filter"
  /\ cerr = "None"
  /\ last_date = 0
  /\ batch = <<>>
  /\ resp_date = 0
  /\ packages = <<>>
  /\ comments = [c \in 1..MaxTasks |-> c]
  /\ workspace = [e \in 1..(MaxRestarts + 1) |-> 0]
  /\ database = [e \in 1..(MaxRestarts + 1) |-> 0]
  /\ storeRemote = InitStore
  /\ storeLocal = InitStore
  /\ indexRemote = InitIndex
  /\ indexLocal = InitIndex
  /\ epoch \in 1..(MaxRestarts + 1)
  /\ \E author \in [1..MaxTasks -> Users] :
       /\ issue = [c \in 1..MaxTasks |-> PublishComment(author[c])]
       /\ users = { author[c] : c \in 1..MaxTasks }
       /\ tasks = [c \in 1..MaxTasks |->
                     DispatchedBy(c, author[c], IF c < MaxTasks THEN 1 ELSE epoch)]

SpecPub == InitPub /\ [][Pipeline]_vars

(* The parser alone: one comment of a user, with a body put together from  *)
(* the pieces below, has come in the poll after the first one.             *)
Leads == {<<>>, <<" ">>, <<"x", " ">>}
Mentions == {<<>>, <<"@">>, <<"@", "n", "a">>, <<"@">> \o BotName,
             <<"@">> \o BotName \o <<"s">>}
Gaps == {<<>>, <<" ">>, <<Nbsp>>}
Keywords == {<<>>, <<"/">>, <<"/", "p", "u", "b", "l", "i", "s">>,
             <<"/", "p", "u", "b", "l", "i", "s", "h">>,
             <<"/", " ", "p", "u", "b", "l", "i", "s", "h">>}
Urls == {<<>>, <<"x">>}
Refs == {<<>>, <<"m">>}
Tails == {<<>>, <<" ", "t">>}
InputForms ==
  [lead : Leads, mention : Mentions, gap1 : Gaps \cup {<<" ", "\n">>},
   keyword : Keywords, gap2 : Gaps, url : Urls, gap3 : Gaps, ref : Refs,
   tail : Tails]
Text(f) ==
  f.lead \o f.mention \o f.gap1 \o f.keyword \o f.gap2 \o f.url \o f.gap3
    \o f.ref \o f.tail
Inputs == { Text(f) : f \in InputForms }

InitParse ==
  /\ now = 0
  /\ epoch = 1
  /\ cpc = "filter"
  /\ cerr = "None"
  /\ last_date = 0
  /\ batch = <<1>>
  /\ resp_date = 0
  /\ users = {}
  /\ comments = <<>>
  /\ packages = <<>>
  /\ tasks = <<>>
  /\ workspace = [e \in 1..(MaxRestarts + 1) |-> 0]
  /\ database = [e \in 1..(MaxRestarts + 1) |-> 0]
  /\ storeRemote = InitStore
  /\ storeLocal = InitStore
  /\ indexRemote = InitIndex
  /\ indexLocal = InitIndex
  /\ \E body \in Inputs :
       issue = <<[user |-> 1, body |-> body, created_at |-> 0, report |-> NoReport]>>

SpecParse == InitParse /\ [][LockDatabaseRun \/ Filter \/ Save \/ Exec \/ EndBatch]_vars

(* ------------------------------ claims -------------------------------- *)
TasksOf(c) == { i \in DOMAIN tasks : tasks[i].c = c }
RowsOf(c) == { i \in DOMAIN comments : comments[i] = c }

\* C1: however often a comment is delivered, and across restarts of the
\* Controller on the same Ledger, a comment id is dispatched at most once and
\* inserted into the Ledger at most once (no insert is tried on an id that
\* is there).
C1_DispatchedOnce ==
  /\ \A c \in DOMAIN issue : Cardinality(TasksOf(c)) <= 1
  /\ \A c \in DOMAIN issue : Cardinality(RowsOf(c)) <= 1
  /\ cerr # "Sqlite"

\* a dispatched, ledgered comment is delivered again to a restarted Controller
C1_Witness ==
  /\ epoch > 1
  /\ cpc = "filter"
  /\ batch # <<>>
  /\ QueryComment(Head(batch))
  /\ TasksOf(Head(batch)) # {}
  /\ ~SkipEarly(Head(batch))

PassesFilters(c) == ~(SkipEarly(c) \/ SkipMyself(c) \/ SkipLedgered(c))

\* C2: a comment that passes the three filters is in the Ledger (its user
\* and its row) before its body is parsed, whatever the body holds; every
\* dispatched comment and every comment showing the Command Error report is
\* in the Ledger.
C2_LedgeredFirst ==
  [][ /\ (/\ cpc = "filter" /\ batch # <<>> /\ PassesFilters(Head(batch))
          /\ <<cpc, batch>>' # <<cpc, batch>>)
           => cpc' = "save" /\ batch' = batch
      /\ (cpc = "save" /\ cpc' # cpc)
           => (\A c \in DOMAIN issue :
                 c = Head(batch) => /\ c \in Range(comments')
                                    /\ issue[c].user \in users'
                                    /\ cpc' = "exec")
      /\ (cpc' = "exec" /\ cpc # "exec") => cpc = "save"
      /\ \A i \in DOMAIN tasks' : tasks'[i].c \in Range(comments')
      /\ \A c \in DOMAIN issue' :
           issue'[c].report = CommandError => c \in Range(comments')
    ]_vars

\* a comment without a command has been ledgered, a publish command has been
\* dispatched and a malformed one reported
C2_Witness ==
  /\ \E c \in DOMAIN issue : FromStr(issue[c].body) = "NoCommand" /\ QueryComment(c)
  /\ \E c \in DOMAIN issue : TasksOf(c) # {} \/ issue[c].report = CommandError

\* the attempt holds the workspace for its Pulling-through-UpdatingIndex span
InSpan(t) == t.step \in Pull..UpdateIndex /\ t.error = "None"
SpanOf(e) == { i \in DOMAIN tasks : tasks[i].ctrl = e /\ InSpan(tasks[i]) }

\* C3: of the attempts of one Controller instance at most one is in its
\* Pulling-through-UpdatingIndex span, and it is the holder of that
\* Controller's workspace lock; the others are Blocked, Done or Failed.
C3_OneInSpan ==
  \A e \in DOMAIN workspace :
    /\ Cardinality(SpanOf(e)) <= 1
    /\ \A i \in SpanOf(e) : workspace[e] = i
    /\ workspace[e] # 0 => workspace[e] \in SpanOf(e)

\* one attempt is in its span while another of the same Controller waits
C3_Witness ==
  \E i, j \in DOMAIN tasks :
    /\ tasks[i].ctrl = tasks[j].ctrl
    /\ InSpan(tasks[i])
    /\ tasks[i].step = Upload
    /\ tasks[j].pc = "lock"

\* C4: the workspace lock is process-wide: attempts dispatched by different
\* Controller instances are never in their spans at the same time.
C4_ProcessWideLock ==
  Cardinality({ i \in DOMAIN tasks : InSpan(tasks[i]) }) <= 1

\* C5: package records of one group have one owner, and (group, name,
\* version) is unique.
C5_NamespaceInvariant ==
  \A i, j \in DOMAIN packages :
    /\ packages[i].group = packages[j].group
         => packages[i].user_id = packages[j].user_id
    /\ (/\ packages[i].group = packages[j].group
        /\ packages[i].name = packages[j].name
        /\ packages[i].version = packages[j].version) => i = j

OwnedByOther(group, user) ==
  \E k \in DOMAIN packages :
    packages[k].group = group /\ packages[k].user_id # user

\* task i takes a step
Steps(i) == tasks'[i] # tasks[i]

\* the exact coordinates of a manifest have a Ledger record
Recorded(m) ==
  \E k \in DOMAIN packages :
    /\ packages[k].group = m.group
    /\ packages[k].name = m.name
    /\ packages[k].version = m.version

\* C6: an attempt whose permission check finds a record of its group owned
\* by another user ends Failed with NamespaceIsTaken at Verifying, whatever
\* its name and version, also when its exact coordinates are recorded.
C6_NamespaceIsTaken ==
  [][\A i \in DOMAIN tasks :
       /\ (/\ tasks[i].pc = "check"
           /\ Steps(i)
           /\ OwnedByOther(tasks[i].manifest.group, tasks[i].user))
            => /\ tasks'[i].error = "NamespaceIsTaken"
               /\ tasks'[i].step = Verify
               /\ tasks'[i].pc = "report_err"
       /\ tasks[i].error = "NamespaceIsTaken"
            => /\ tasks'[i].error = "NamespaceIsTaken"
               /\ tasks'[i].step = Verify
    ]_vars

\* an attempt for coordinates another user has published has been refused
C6_Witness ==
  \E i \in DOMAIN tasks :
    /\ tasks[i].error = "NamespaceIsTaken"
    /\ tasks[i].pc = "end"
    /\ Recorded(tasks[i].manifest)
    /\ issue[tasks[i].c].report = RenderPublish(tasks[i])

\* C7: an attempt of the owner whose permission check finds its exact
\* coordinates recorded ends Failed with PackageExists, and no step of that
\* attempt, before or after, changes the Store remote, the Index remote or
\* the Ledger's package records.
C7_PackageExists ==
  [][\A i \in DOMAIN tasks :
       /\ (/\ tasks[i].pc = "check"
           /\ Steps(i)
           /\ ~OwnedByOther(tasks[i].manifest.group, tasks[i].user)
           /\ Recorded(tasks[i].manifest))
            => /\ tasks'[i].error = "PackageExists"
               /\ tasks'[i].step = Verify
               /\ tasks'[i].pc = "report_err"
       /\ (Steps(i) /\ (tasks[i].step <= Verify \/ tasks[i].error = "PackageExists"))
            => /\ UNCHANGED <<storeRemote, indexRemote, packages>>
               /\ (tasks[i].error = "PackageExists"
                     => tasks'[i].error = "PackageExists")
    ]_vars

\* the owner's second attempt for recorded coordinates has been refused
C7_Witness ==
  \E i \in DOMAIN tasks :
    /\ tasks[i].error = "PackageExists"
    /\ tasks[i].pc = "end"
    /\ \E k \in DOMAIN packages :
         /\ packages[k].user_id = tasks[i].user
         /\ packages[k].group = tasks[i].manifest.group
         /\ packages[k].name = tasks[i].manifest.name
         /\ packages[k].version = tasks[i].manifest.version

SamePackage(m1, m2) == m1.group = m2.group /\ m1.name = m2.name
\* the Ledger rows, the index entries and the readme lines of a manifest
RowsFor(rows, m) ==
  { k \in DOMAIN rows : SamePackage(rows[k], m) /\ rows[k].version = m.version }
EntriesFor(index, m) ==
  LET file == index.files[<<m.group, m.name>>]
  IN { k \in DOMAIN file : file[k].version = m.version }
LinesFor(index, m) ==
  { k \in DOMAIN index.readme : SamePackage(index.readme[k], m) }

\* C8: when an attempt for a higher version of a package writes the readme
\* after the same user's attempt for a lower version is Done, it reaches
\* Done, the Ledger holds one record and the index file one entry for each
\* of the two versions, and the readme written has exactly one line for the
\* package, showing the higher version (the highest recorded).
C8_TwoVersions ==
  [][\A a, b \in DOMAIN tasks :
       (/\ tasks[a].step = Done
        /\ tasks[b].pc = "update_readme"
        /\ tasks'[b].error = "None"
        /\ Steps(b)
        /\ tasks[a].user = tasks[b].user
        /\ SamePackage(tasks[a].manifest, tasks[b].manifest)
        /\ tasks[a].manifest.version < tasks[b].manifest.version
        /\ \A k \in DOMAIN packages :
             SamePackage(packages[k], tasks[b].manifest)
               => packages[k].version <= tasks[b].manifest.version)
         => /\ tasks'[b].step = Done
            /\ \A m \in {tasks[a].manifest, tasks[b].manifest} :
                 /\ Cardinality(RowsFor(packages', m)) = 1
                 /\ Cardinality(EntriesFor(indexRemote', m)) = 1
            /\ Cardinality(LinesFor(indexRemote', tasks[b].manifest)) = 1
            /\ \A k \in LinesFor(indexRemote', tasks[b].manifest) :
                 indexRemote'.readme[k].version = tasks[b].manifest.version
    ]_vars

\* version 1 then version 2 of a package have been published by one user
C8_Witness ==
  /\ \A i \in {1, 2} :
       /\ tasks[i].step = Done
       /\ tasks[i].pc = "end"
       /\ tasks[i].user = tasks[1].user
       /\ tasks[i].manifest = [group |-> 1, name |-> 1, version |-> i]
  /\ Len(packages) = 2
  /\ Len(indexRemote.files[<<1, 1>>]) = 2
  /\ Len(indexRemote.readme) = 1
  /\ indexRemote.readme[1].version = 2

\* C9: the step of an attempt moves forward one step at a time, a failure
\* leaves the step where it happened, and an attempt that is Done or Failed
\* changes neither its step nor the Store, the Index or the Ledger: it only
\* writes its last report and ends.
C9_StepOrder ==
  [][\A i \in DOMAIN tasks :
       /\ tasks'[i].step \in {tasks[i].step, tasks[i].step + 1}
       /\ tasks'[i].error # tasks[i].error
            => tasks[i].error = "None" /\ tasks'[i].step = tasks[i].step
       /\ (tasks[i].step = Done \/ tasks[i].error # "None")
            => /\ tasks'[i].step = tasks[i].step
               /\ tasks'[i].error = tasks[i].error
               /\ Steps(i) => /\ tasks[i].pc \in {"report_done", "report_err"}
                              /\ tasks'[i].pc = "end"
                              /\ UNCHANGED <<ledgerVars, repoVars, workspace>>
       /\ tasks[i].pc = "end" => ~Steps(i)
    ]_vars

\* one attempt is Done and has ended, another has Failed in UpdatingIndex
C9_Witness ==
  \E i, j \in DOMAIN tasks :
    /\ tasks[i].step = Done
    /\ tasks[i].pc = "end"
    /\ tasks[j].step = UpdateIndex
    /\ tasks[j].error = "GitPush"
    /\ tasks[j].pc = "end"

\* where the work of a step is under way
Working(t) ==
  t.pc \in {"lock", "pull", "build", "check", "upload", "update_package",
            "commit_publish", "render", "update_readme"}

\* C10: while the work of a step is under way, the triggering comment shows
\* that step (and no error): the edit came before the work.
C10_ReportedBeforeWork ==
  \A i \in DOMAIN tasks :
    Working(tasks[i]) => issue[tasks[i].c].report = RenderPublish(tasks[i])

\* task i holds the workspace lock of its Controller
Holds(i) == workspace[tasks[i].ctrl] = i
\* a step in which task i edits its comment
Edits(i) == issue'[tasks[i].c].report # issue[tasks[i].c].report

\* C11: the Blocked report comes before the attempt asks for the workspace
\* lock and before any Store, Index or Ledger access: the step that reports
\* Blocked touches none of them, and an attempt waiting for the lock holds
\* none and shows the Blocked report; an edit that shows Pulling, Verifying,
\* Uploading or UpdatingIndex without an error is made by the lock holder.
C11_BlockedFirst ==
  [][\A i \in DOMAIN tasks :
       /\ (tasks[i].pc = "report_block" /\ Steps(i))
            => /\ UNCHANGED <<workspace, ledgerVars, repoVars>>
               /\ tasks'[i].pc \in {"lock", "report_err"}
               /\ ~Holds(i)
       /\ tasks'[i].pc = "lock"
            => /\ workspace'[tasks[i].ctrl] # i
               /\ issue'[tasks[i].c].report = RenderPublish(tasks'[i])
               /\ tasks'[i].step = Block
       /\ (/\ Edits(i)
           /\ issue'[tasks[i].c].report.step \in Pull..UpdateIndex
           /\ issue'[tasks[i].c].report.error = "None")
            => Holds(i) /\ workspace'[tasks[i].ctrl] = i
    ]_vars

\* an attempt shows Blocked and waits while the lock holder shows Verifying
C11_Witness ==
  \E i, j \in DOMAIN tasks :
    /\ tasks[i].pc = "lock"
    /\ issue[tasks[i].c].report = RenderPublish(tasks[i])
    /\ tasks[j].ctrl = tasks[i].ctrl
    /\ Holds(j)
    /\ tasks[j].pc = "build"
    /\ issue[tasks[j].c].report.step = Verify

\* the index holds an entry for the coordinates of a Ledger row
HasEntry(index, row) ==
  \E k \in DOMAIN index.files[<<row.group, row.name>>] :
    index.files[<<row.group, row.name>>][k].version = row.version

FailedEarly(t) == t.error # "None" /\ t.step \in {Pull, Verify}

\* C13: no step of an attempt that is still in Pulling or Verifying, and no
\* step of an attempt that failed there (clone or checkout error, builder
\* error, permission failure), changes the Store remote, the Index remote,
\* the two checkouts or the Ledger's package records.
C13_EarlyFailureFrame ==
  [][\A i \in DOMAIN tasks :
       /\ (Steps(i) /\ (tasks[i].step \in {Pull, Verify} \/ FailedEarly(tasks[i])))
            => UNCHANGED <<repoVars, packages>>
       /\ (Steps(i) /\ tasks[i].pc = "pull" /\ tasks'[i].error # "None")
            => tasks'[i].step = Pull /\ tasks'[i].error = "Git"
       /\ (Steps(i) /\ tasks[i].pc \in {"build", "check"} /\ tasks'[i].error # "None")
            => /\ tasks'[i].step = Verify
               /\ tasks'[i].error \in {"Build", "NamespaceIsTaken", "PackageExists"}
       /\ FailedEarly(tasks[i]) => FailedEarly(tasks'[i])
    ]_vars

\* one attempt has failed in Pulling and ended after another had published
C13_Witness ==
  \E i, j \in DOMAIN tasks :
    /\ tasks[i].step = Pull
    /\ tasks[i].error = "Git"
    /\ tasks[i].pc = "end"
    /\ tasks[j].step = Done
    /\ Len(packages) = 1
    /\ indexRemote.commits = 2
    /\ storeRemote.commits = 1

\* C14: upload_package rejects a tarball one byte over the ceiling with
\* PackageOversize, leaving the Store checkout and remote as they are, and
\* does not reject one of exactly the ceiling for its size.
C14_SizeBoundary ==
  [][\A i \in DOMAIN tasks :
       (Steps(i) /\ tasks[i].pc = "upload")
         => /\ tasks[i].size = StoreMaxSize + 1
                 => /\ tasks'[i].error = "PackageOversize"
                    /\ tasks'[i].step = Upload
                    /\ UNCHANGED <<storeLocal, storeRemote>>
            /\ tasks[i].size = StoreMaxSize
                 => tasks'[i].error # "PackageOversize"
            /\ tasks'[i].error = "PackageOversize" => tasks[i].size > StoreMaxSize
    ]_vars

\* a tarball of the ceiling's size is in the Store, a bigger one was refused
C14_Witness ==
  \E i, j \in DOMAIN tasks :
    /\ tasks[i].size = StoreMaxSize
    /\ tasks[i].step = Done
    /\ StoreFile(TarballName(tasks[i].manifest), Tarball(tasks[i].manifest))
         \in storeRemote.files
    /\ tasks[j].error = "PackageOversize"
    /\ tasks[j].pc = "end"
    /\ storeRemote.commits = 1

\* the Store holds a file of the manifest's tarball name
InStore(repo, m) == \E f \in repo.files : f.name = TarballName(m)

\* C15: upload_package returns a Location only when the digest of the
\* re-downloaded copy equals the digest computed locally, and that digest is
\* the returned checksum; on a mismatch the attempt fails in Uploading with
\* DownloadVerification, the pushed blob stays in the Store, and the attempt
\* neither before nor after touches the Index or the Ledger.
C15_DownloadVerified ==
  [][\A i \in DOMAIN tasks :
       /\ (Steps(i) /\ tasks[i].pc = "upload" /\ tasks'[i].pc = "update_package")
            => /\ tasks'[i].location.cksum = Sha256(Tarball(tasks[i].manifest))
               /\ Sha256(Download(storeRemote', tasks[i].manifest))
                    = tasks'[i].location.cksum
               /\ tasks'[i].location.url
                    = GithubRawUrl(storeRemote'.commits, tasks[i].manifest)
       /\ (Steps(i) /\ tasks[i].pc = "upload"
           /\ tasks'[i].error = "DownloadVerification")
            => /\ tasks'[i].step = Upload
               /\ tasks'[i].pc = "report_err"
               /\ InStore(storeRemote', tasks[i].manifest)
               /\ Sha256(Download(storeRemote', tasks[i].manifest))
                    # Sha256(Tarball(tasks[i].manifest))
       /\ (Steps(i) /\ tasks[i].pc = "upload"
           /\ InStore(storeRemote', tasks[i].manifest)
           /\ storeRemote' # storeRemote
           /\ Download(storeRemote', tasks[i].manifest) # Tarball(tasks[i].manifest))
            => tasks'[i].error = "DownloadVerification"
       /\ (Steps(i) /\ (tasks[i].step <= Upload
                        \/ tasks[i].error = "DownloadVerification"))
            => UNCHANGED <<indexRemote, indexLocal, ledgerVars>>
       /\ (Steps(i) /\ tasks[i].error = "DownloadVerification")
            => UNCHANGED storeRemote /\ tasks'[i].error = "DownloadVerification"
    ]_vars

\* an attempt has ended with DownloadVerification: the damaged blob is in the
\* Store, nothing is in the Index or the Ledger
C15_Witness ==
  \E i \in DOMAIN tasks :
    /\ tasks[i].error = "DownloadVerification"
    /\ tasks[i].pc = "end"
    /\ issue[tasks[i].c].report = RenderPublish(tasks[i])
    /\ StoreFile(TarballName(tasks[i].manifest), Corrupted) \in storeRemote.files
    /\ indexRemote = InitIndex
    /\ packages = <<>>

\* C16: a push the remote rejects fails the attempt at its step with the
\* push error: its one commit stays in the checkout, the remote and the
\* Ledger are as before (no retry got through), and the attempt then only
\* writes the report showing the error and ends.
C16_PushRejected ==
  [][\A i \in DOMAIN tasks :
       /\ (Steps(i) /\ tasks[i].error = "None" /\ tasks'[i].error = "GitPush")
            => /\ tasks[i].pc \in {"upload", "update_package", "update_readme"}
               /\ tasks'[i].step = tasks[i].step
               /\ tasks'[i].pc = "report_err"
               /\ UNCHANGED <<storeRemote, indexRemote, ledgerVars>>
               /\ tasks[i].pc = "upload"
                    => \E fetched \in FetchAndReset(storeLocal, storeRemote) :
                         storeLocal'.commits = fetched.commits + 1
               /\ tasks[i].pc # "upload"
                    => \E fetched \in FetchAndReset(indexLocal, indexRemote) :
                         indexLocal'.commits = fetched.commits + 1
       /\ (Steps(i) /\ tasks[i].error = "GitPush")
            => /\ UNCHANGED <<repoVars, ledgerVars, workspace>>
               /\ tasks'[i] = [tasks[i] EXCEPT !.pc = "end"]
               /\ Edits(i) => issue'[tasks[i].c].report = RenderPublish(tasks[i])
    ]_vars

\* the Index push of update_package was rejected: the attempt has ended
\* showing the error, its blob is in the Store and it has no Ledger record
C16_Witness ==
  \E i \in DOMAIN tasks :
    /\ tasks[i].error = "GitPush"
    /\ tasks[i].step = UpdateIndex
    /\ tasks[i].pc = "end"
    /\ issue[tasks[i].c].report.error = "GitPush"
    /\ InStore(storeRemote, tasks[i].manifest)
    /\ ~Recorded(tasks[i].manifest)
    /\ indexLocal.commits = indexRemote.commits + 1

\* C17: the first poll of a Controller instance, also of one built after a
\* restart, only sets last_date to the Date of the response: no comment is
\* taken into the for loop, ledgered, edited or dispatched.
C17_FirstPollBaseline ==
  [][/\ (cpc = "poll" /\ last_date = NoDate /\ ctrlVars' # ctrlVars)
          => /\ cpc' \in {"poll", "failed", "panicked"}
             /\ cpc' = "poll" => last_date' = now' /\ last_date' # NoDate
             /\ batch' = <<>>
             /\ UNCHANGED <<ledgerVars, issue, tasks>>
     /\ epoch' # epoch => cpc' = "poll" /\ last_date' = NoDate /\ batch' = <<>>
    ]_vars

\* the Controller built after a restart has made its first poll while a
\* user's comment that is not in the Ledger is on the issue
C17_Witness ==
  /\ epoch = 2
  /\ cpc = "poll"
  /\ last_date # NoDate
  /\ \E c \in DOMAIN issue :
       /\ issue[c].user # Bot
       /\ issue[c].body = PublishText
       /\ issue[c].created_at >= last_date
       /\ ~QueryComment(c)
       /\ issue[c].report = NoReport
       /\ TasksOf(c) = {}

\* C18: a polled comment created before last_date minus one minute, written
\* by the bot, or with its id in the Ledger is passed over: nothing is
\* ledgered, edited or dispatched and the loop goes to the next comment; a
\* comment created exactly at last_date minus one minute, not the bot's and
\* not in the Ledger, goes on to the ledger writes, which ledger it.
C18_SkipRules ==
  [][/\ (cpc = "save" /\ cpc' # cpc)
          => /\ Head(batch) \in Range(comments')
             /\ issue[Head(batch)].user \in users'
     /\ (/\ cpc = "filter" /\ batch # <<>>
         /\ <<cpc, batch>>' # <<cpc, batch>>)
       => \A c \in DOMAIN issue :
            c = Head(batch)
              => /\ (\/ issue[c].created_at < last_date - OneMinute
                     \/ issue[c].user = Bot
                     \/ c \in Range(comments))
                      => /\ UNCHANGED <<ledgerVars, issue, tasks>>
                         /\ cpc' = "filter"
                         /\ batch' = Tail(batch)
                 /\ (/\ issue[c].created_at = last_date - OneMinute
                     /\ issue[c].user # Bot
                     /\ c \notin Range(comments))
                      => /\ cpc' = "save"
                         /\ batch' = batch
    ]_vars

\* a comment created exactly one minute before last_date has been ledgered;
\* an older one of a user, earlier in the issue, is not in the Ledger
C18_Witness ==
  /\ cpc = "exec"
  /\ issue[Head(batch)].created_at = last_date - OneMinute
  /\ QueryComment(Head(batch))
  /\ \E c \in DOMAIN issue :
       /\ c < Head(batch)
       /\ issue[c].created_at < last_date - OneMinute
       /\ issue[c].user # Bot
       /\ ~QueryComment(c)

\* C19: the poll loop never waits for a publish attempt: while an attempt
\* holds a workspace lock or is blocked on one, the step the loop stands at
\* (the next poll, the next comment's filters and ledger writes, the parse
\* and dispatch, the end of the batch) can be taken.
C19_PollerNeverWaits ==
  (\E i \in DOMAIN tasks : tasks[i].pc = "lock" \/ Holds(i))
    => /\ cpc = "poll" => ENABLED Poll
       /\ cpc = "filter" => ENABLED (LockDatabaseRun \/ Filter \/ EndBatch)
       /\ cpc = "save" => ENABLED (LockDatabaseRun \/ Save)
       /\ cpc = "exec" => batch # <<>>

\* the first attempt holds the lock and has reported Pulling; the loop has
\* ledgered the next publish command and is about to dispatch it
C19_Witness ==
  /\ Len(tasks) = 1
  /\ Holds(1)
  /\ tasks[1].pc = "pull"
  /\ cpc = "exec"
  /\ Head(batch) # tasks[1].c
  /\ QueryComment(Head(batch))
  /\ FromStr(issue[Head(batch)].body) = "Publish"

\* C20: when the run loop of the Controller has ended, by an error it
\* returned or by a panic of its task, main builds a fresh Controller, which
\* polls again with last_date unset; an error inside a publish task changes
\* nothing of the Controller and of the other tasks.
C20_SupervisedRestart ==
  [][/\ (cpc \in {"failed", "panicked"} /\ epoch <= MaxRestarts)
          => ENABLED Restart
     /\ (cpc \in {"failed", "panicked"} /\ cpc' # cpc)
          => /\ epoch' = epoch + 1
             /\ cpc' = "poll"
             /\ last_date' = NoDate
     /\ \A i \in DOMAIN tasks :
          (tasks[i].error = "None" /\ tasks'[i].error # "None")
            => /\ UNCHANGED ctrlVars
               /\ \A j \in DOMAIN tasks : j # i => tasks'[j] = tasks[j]
    ]_vars

\* what parse_command makes of a comment's body
KindOf(c) == ParseCommand(issue[c].body, BotName).kind

\* C21: for a ledgered comment whose body addresses the bot but does not
\* parse, the loop dispatches nothing and edits the comment, which showed no
\* report before, with the Command Error report, then goes on with the rest
\* of the batch (or the edit fails and run returns); no other step puts the
\* Command Error report on a comment.
C21_MalformedReported ==
  [][\A c \in DOMAIN issue :
       /\ (/\ cpc = "exec" /\ c = Head(batch) /\ KindOf(c) = "Err"
           /\ ctrlVars' # ctrlVars)
            => /\ c \in Range(comments)
               /\ UNCHANGED <<tasks, ledgerVars>>
               /\ \/ /\ issue[c].report = NoReport
                     /\ issue' = [issue EXCEPT ![c].report = CommandError]
                     /\ batch' = Tail(batch)
                     /\ cpc' = "filter"
                  \/ /\ cpc' = "failed"
                     /\ UNCHANGED issue
       /\ (issue'[c].report = CommandError /\ issue[c].report # CommandError)
            => cpc = "exec" /\ c = Head(batch) /\ KindOf(c) = "Err"
       /\ issue[c].report = CommandError => issue'[c].report = CommandError
    ]_vars

\* the malformed first comment of a batch shows the Command Error report and
\* has no task; the loop is at the next comment of the batch
C21_Witness ==
  /\ Len(issue) = 2
  /\ KindOf(1) = "Err"
  /\ issue[1].report = CommandError
  /\ TasksOf(1) = {}
  /\ Cardinality(RowsOf(1)) = 1
  /\ cpc = "exec"
  /\ batch = <<2>>

\* the texts that do not address the bot: no mention at all, a cut-off
\* mention, a mention of a user whose name starts with the bot's name, or a
\* mention that is not at the start
NotMentioning ==
  { Text(f) : f \in { g \in InputForms :
                        \/ g.mention # <<"@">> \o BotName
                        \/ g.lead = <<"x", " ">> } }

\* C22: a comment whose body does not mention the bot parses to no command,
\* never to an error: when the loop is through with it, it has no report and
\* no task, and run has not failed.
C22_NoMentionNoCommand ==
  (issue[1].body \in NotMentioning /\ batch = <<>>)
    => /\ tasks = <<>>
       /\ issue[1].report = NoReport
       /\ cpc # "failed"

\* the texts of the form: optional whitespace, the mention, whitespace,
\* "/publish", whitespace, a url, then nothing more or whitespace, a ref and
\* maybe a further token
Spaces == Gaps \ {<<>>}
WellFormedNoRef ==
  [lead : {<<>>, <<" ">>}, mention : {<<"@">> \o BotName},
   gap1 : Spaces \cup {<<" ", "\n">>},
   keyword : {<<"/", "p", "u", "b", "l", "i", "s", "h">>}, gap2 : Spaces,
   url : Urls \ {<<>>}, gap3 : {<<>>}, ref : {<<>>}, tail : {<<>>}]
WellFormedRef ==
  [lead : {<<>>, <<" ">>}, mention : {<<"@">> \o BotName},
   gap1 : Spaces \cup {<<" ", "\n">>},
   keyword : {<<"/", "p", "u", "b", "l", "i", "s", "h">>}, gap2 : Spaces,
   url : Urls \ {<<>>}, gap3 : Spaces, ref : Refs \ {<<>>}, tail : Tails]
WellFormed == WellFormedNoRef \cup WellFormedRef

\* C23: a comment whose body has the form of a publish command is
\* dispatched with git equal to the url and refname equal to the ref (none
\* when there is no ref), whatever follows the ref.
C23_PublishParsed ==
  \A f \in WellFormed :
    (issue[1].body = Text(f) /\ batch = <<>>)
      => /\ Len(tasks) = 1
         /\ tasks[1].remote_url = f.url
         /\ tasks[1].refname = f.ref

\* texts that start with the mention and do not go on with whitespace,
\* "/publish", whitespace and a url: nothing or no whitespace after the
\* mention; another keyword; no whitespace after the keyword; no url
AfterMention(gap1s, keywords, gap2s, urls) ==
  [lead : {<<>>, <<" ">>}, mention : {<<"@">> \o BotName}, gap1 : gap1s,
   keyword : keywords, gap2 : gap2s, url : urls, gap3 : {<<>>}, ref : {<<>>},
   tail : {<<>>}]
Malformed ==
  AfterMention({<<>>}, Keywords, Gaps, Urls)
    \cup AfterMention({<<" ">>, <<" ", "\n">>},
                      Keywords \ {<<"/", "p", "u", "b", "l", "i", "s", "h">>},
                      Gaps, Urls)
    \cup AfterMention({<<" ">>, <<" ", "\n">>},
                      {<<"/", "p", "u", "b", "l", "i", "s", "h">>}, {<<>>}, Urls)
    \cup AfterMention({<<" ">>, <<" ", "\n">>},
                      {<<"/", "p", "u", "b", "l", "i", "s", "h">>}, {<<" ">>}, {<<>>})

\* C24: a comment whose body starts with the mention and does not go on as
\* a publish command parses to an error: it is answered with the Command
\* Error report (or run fails on the edit), and nothing is dispatched.
C24_MalformedIsError ==
  \A f \in Malformed :
    (issue[1].body = Text(f) /\ batch = <<>>)
      => /\ tasks = <<>>
         /\ issue[1].report = CommandError \/ cerr = "Github"

\* "@name/publish x" has been answered with the Command Error report
C24_Witness ==
  /\ issue[1].body = <<"@">> \o BotName \o <<"/", "p", "u", "b", "l", "i", "s", "h", " ", "x">>
  /\ issue[1].report = CommandError
  /\ comments = <<1>>
  /\ batch = <<>>
  /\ tasks = <<>>

\* the entries of a list other than those of a version, in their order
Others(entries, version) == SelectSeq(entries, LAMBDA e : e.version # version)
\* the index file of a manifest's package
FileOf(index, m) == index.files[<<m.group, m.name>>]

\* C25: when update_package has inserted its entry into the fetched file and
\* committed it, the file holds exactly one entry of that name and version,
\* the new one with the attempt's location; the entries of other versions
\* are as they were, in their order; inserting the entry again changes
\* nothing.
C25_InsertReplaces ==
  [][\A i \in DOMAIN tasks :
       (/\ tasks[i].pc = "update_package"
        /\ Steps(i)
        /\ tasks'[i].error \in {"None", "GitPush"})
         => \E fetched \in FetchAndReset(indexLocal, indexRemote) :
            LET m == tasks[i].manifest
                old == FileOf(fetched, m)
                new == FileOf(indexLocal', m)
            IN /\ Cardinality(EntriesFor(indexLocal', m)) = 1
               /\ \A k \in EntriesFor(indexLocal', m) :
                    /\ new[k].location = tasks[i].location
                    /\ new[k].name = <<m.group, m.name>>
               /\ Others(new, m.version) = Others(old, m.version)
               /\ EntriesInsert(new, m, tasks[i].location) = new
               /\ \A n \in PkgNames :
                    n # <<m.group, m.name>>
                      => indexLocal'.files[n] = fetched.files[n]
    ]_vars

\* two attempts have inserted an entry for the same name and version: the
\* file holds one entry, with the location of one of them, next to the entry
\* of no other version
C25_Witness ==
  /\ Len(tasks) = 2
  /\ tasks[1].manifest = tasks[2].manifest
  /\ tasks[1].pc = "commit_publish"
  /\ tasks[2].pc = "commit_publish"
  /\ tasks[1].location # tasks[2].location
  /\ Len(FileOf(indexRemote, tasks[1].manifest)) = 1
  /\ FileOf(indexRemote, tasks[1].manifest)[1].location = tasks[2].location

\* the lines of a listing for the package of a Ledger row
LinesOf(list, row) == { l \in DOMAIN list : SamePackage(list[l], row) }

\* C26: the listing rendered by an attempt has exactly one line for every
\* (group, name) of the Ledger and no other line; the line shows a recorded
\* version, the highest of that package; the attempt's own record is in the
\* Ledger by then, so its package is listed.
C26_ReadmeListing ==
  [][\A i \in DOMAIN tasks :
       (tasks[i].pc = "render" /\ Steps(i))
         => LET list == tasks'[i].list
            IN /\ \A k \in DOMAIN packages :
                    /\ Cardinality(LinesOf(list, packages[k])) = 1
                    /\ \A l \in LinesOf(list, packages[k]) :
                         list[l].version >= packages[k].version
               /\ \A l \in DOMAIN list :
                    \E k \in DOMAIN packages :
                      /\ SamePackage(packages[k], list[l])
                      /\ packages[k].version = list[l].version
               /\ Recorded(tasks[i].manifest)
               /\ LinesOf(list, tasks[i].manifest) # {}
    ]_vars

\* version 2 of a package was recorded before version 1: the listing the
\* second attempt rendered has the one line, showing version 2
C26_Witness ==
  /\ Len(packages) = 2
  /\ SamePackage(packages[1], packages[2])
  /\ packages[1].version = 2
  /\ packages[2].version = 1
  /\ \E i \in DOMAIN tasks :
       /\ tasks[i].pc = "update_readme"
       /\ tasks[i].manifest.version = 1
       /\ Len(tasks[i].list) = 1
       /\ tasks[i].list[1].version = 2

GitDependency(t) == "Git" \in Range(t.dependencies)

\* C28: when update_package runs for a manifest with a dependency that is not
\* a registry dependency, the attempt fails: with NonIndexDependency unless
\* the fetch failed first; its step stays UpdatingIndex, the Index remote,
\* the Ledger and the index files of the checkout it fetched are unchanged,
\* and from then on the attempt only reports the error and ends.
C28_NonIndexDependency ==
  [][\A i \in DOMAIN tasks :
       /\ (/\ tasks[i].pc = "update_package"
           /\ Steps(i)
           /\ GitDependency(tasks[i]))
            => /\ tasks'[i].error \in {"NonIndexDependency", "Git"}
               /\ tasks'[i].step = UpdateIndex
               /\ tasks'[i].pc = "report_err"
               /\ UNCHANGED <<indexRemote, ledgerVars>>
               /\ indexLocal' \in FetchAndReset(indexLocal, indexRemote) \cup {indexLocal}
       /\ (Steps(i) /\ tasks'[i].error = "NonIndexDependency")
            => \/ /\ tasks[i].pc = "update_package"
                  /\ GitDependency(tasks[i])
               \/ /\ tasks[i].pc = "report_err"
                  /\ tasks'[i].pc = "end"
                  /\ UNCHANGED <<repoVars, ledgerVars>>
    ]_vars

\* an attempt whose manifest had a git dependency has ended with
\* NonIndexDependency in UpdatingIndex: its tarball is in the Store, the
\* Index remote has no commit and the Ledger no record
C28_Witness ==
  \E i \in DOMAIN tasks :
    /\ tasks[i].pc = "end"
    /\ tasks[i].error = "NonIndexDependency"
    /\ tasks[i].step = UpdateIndex
    /\ storeRemote.commits = 1
    /\ indexRemote = InitIndex
    /\ packages = <<>>

(* The poll loop next to the pipelines, from the state of Spec in which the  *)
(* first Controller has dispatched all publish commands but the last, which *)
(* is posted and not polled yet; the clock stands at MaxTime.               *)
InitLedger ==
  /\ now = MaxTime
  /\ issue = [c \in 1..MaxTasks |->
                [PublishComment(1) EXCEPT !.created_at = MaxTime]]
  /\ epoch = 1
  /\ cpc = "poll"
  /\ cerr = "None"
  /\ last_date = MaxTime
  /\ batch = <<>>
  /\ resp_date = 0
  /\ users = {1}
  /\ comments = [c \in 1..(MaxTasks - 1) |-> c]
  /\ packages = <<>>
  /\ tasks = [c \in 1..(MaxTasks - 1) |-> DispatchedBy(c, 1, 1)]
  /\ workspace = [e \in 1..(MaxRestarts + 1) |-> 0]
  /\ database = [e \in 1..(MaxRestarts + 1) |-> 0]
  /\ storeRemote = InitStore
  /\ storeLocal = InitStore
  /\ indexRemote = InitIndex
  /\ indexLocal = InitIndex

\* a step of Controller::run
RunLoop == Poll \/ LockDatabaseRun \/ Filter \/ Save \/ Exec \/ EndBatch
SpecLedger == InitLedger /\ [][RunLoop \/ Pipeline]_vars

\* a step of publish attempt i
Attempt(i) ==
  \/ ReportStep(i) \/ Lock(i) \/ PullRepo(i) \/ Build(i) \/ LockDatabase(i)
  \/ Check(i) \/ UploadPackage(i) \/ UpdatePackage(i) \/ CommitPublish(i)
  \/ Render(i) \/ UpdateReadme(i) \/ ReportFinal(i)

\* the holder of a Controller's Ledger lock can take its next step
HolderRuns(e) ==
  \/ database[e] = Run /\ e = epoch /\ ENABLED (Filter \/ Save)
  \/ database[e] \in DOMAIN tasks /\ ENABLED Attempt(database[e])

\* attempt i can take a step, or waits for the Ledger lock and its holder can
Proceeds(i) ==
  \/ ENABLED Attempt(i)
  \/ /\ tasks[i].pc \in {"check", "commit_publish", "render"}
     /\ HolderRuns(tasks[i].ctrl)

\* who holds which lock, and that nobody is stuck
LockOrder ==
  /\ \A e \in DOMAIN database :
       /\ database[e] \in {0, Run} \cup DOMAIN tasks
       /\ database[e] # 0 => HolderRuns(e)
       /\ database[e] \in DOMAIN tasks
            => /\ tasks[database[e]].ctrl = e
               /\ Holds(database[e])
               /\ tasks[database[e]].pc \in {"check", "commit_publish", "render"}
  /\ \A e \in DOMAIN workspace : workspace[e] \in {0} \cup DOMAIN tasks
  /\ \A i \in DOMAIN tasks :
       tasks[i].pc # "end"
         => \/ Proceeds(i)
            \/ /\ tasks[i].pc = "lock"
               /\ \E j \in DOMAIN tasks :
                    /\ j # i
                    /\ tasks[j].ctrl = tasks[i].ctrl
                    /\ Holds(j)
                    /\ Proceeds(j)
  /\ cpc = "poll" => ENABLED Poll
  /\ cpc \in {"filter", "save"}
       => \/ ENABLED (LockDatabaseRun \/ Filter \/ Save \/ EndBatch)
          \/ /\ database[epoch] \in DOMAIN tasks
             /\ HolderRuns(epoch)
  /\ cpc \notin {"filter", "save"} => database[epoch] # Run

\* which steps take and drop the locks
LockSteps ==
  /\ (\/ ctrlVars' # ctrlVars
      \/ \E e \in DOMAIN database : (database[e] = Run) # (database'[e] = Run))
       => UNCHANGED workspace
  /\ \A i \in DOMAIN tasks :
       /\ (database'[tasks[i].ctrl] = i /\ database[tasks[i].ctrl] # i)
            => /\ Holds(i)
               /\ UNCHANGED <<tasks, workspace>>
       /\ Steps(i) => database'[tasks[i].ctrl] # i

\* C29: the poll loop and the attempts cannot deadlock. The Ledger lock of a
\* Controller is held by the poll loop or by the attempt that holds its
\* workspace lock, and its holder can always take its next step; an attempt
\* that waits for the workspace lock holds no Ledger lock, and the holder it
\* waits for can proceed; the poll loop never takes or drops a workspace
\* lock; an attempt takes the Ledger lock only while it holds the workspace
\* lock and has dropped it when its next step is done.
C29_NoDeadlock == [](LockOrder) /\ [][LockSteps]_vars

\* an attempt that holds the workspace lock waits for the Ledger lock, which
\* the poll loop holds for its query, while another attempt is Blocked
C29_Witness ==
  /\ database[epoch] = Run
  /\ cpc = "filter"
  /\ \E i, j \in DOMAIN tasks :
       /\ Holds(i)
       /\ tasks[i].pc = "commit_publish"
       /\ tasks[j].pc = "lock"
       /\ tasks[j].ctrl = tasks[i].ctrl

(* The pipelines of one Controller under fair scheduling: every step of an  *)
(* attempt that can be taken is taken in the end (the external calls        *)
(* return), and an attempt that waits for a Mutex gets it when it is freed  *)
(* again and again (tokio's Mutex serves its waiters in order).             *)
InitFair == InitPub /\ epoch = 1 /\ users = {1}
Fairness ==
  \A i \in TaskIds :
    /\ WF_vars(Attempt(i))
    /\ SF_vars(Lock(i))
    /\ SF_vars(LockDatabase(i))
SpecFair == InitFair /\ [][Pipeline]_vars /\ Fairness

\* attempt i has reached Done or Failed
Ended(i) == tasks[i].step = Done \/ tasks[i].error # "None"

\* C30: under fair scheduling every dispatched attempt reaches Done or
\* Failed; an attempt that has reached either holds no workspace lock,
\* whichever step it left the try block at; and every attempt that waits for
\* the workspace lock in Blocked gets it and goes on to Pulling.
C30_Terminates ==
  /\ \A i \in TaskIds : <>Ended(i)
  /\ [](\A i \in DOMAIN tasks : Ended(i) => ~Holds(i))
  /\ \A i \in TaskIds : (tasks[i].pc = "lock") ~> (tasks[i].step = Pull)

\* the first attempt has failed at its upload, where it held the workspace
\* lock, and the second, which was Blocked meanwhile, is now Pulling
C30_Witness ==
  \E i, j \in DOMAIN tasks :
    /\ tasks[i].error = "GitPush"
    /\ tasks[i].step = Upload
    /\ tasks[j].step = Pull
    /\ Holds(j)
    /\ tasks[i].ctrl = tasks[j].ctrl

\* attempt i has written its package record: commit_publish is behind it
WroteRecord(i) ==
  /\ tasks[i].pc \in {"render", "update_readme"}
  /\ Recorded(tasks[i].manifest)

\* C31: an attempt that ends Failed has written no package record: no step
\* makes an attempt Failed once its commit_publish has written the record,
\* not the render of the listing and not update_readme, so the Ledger
\* does not hold the coordinates of a Failed attempt on its account.
C31_FailedWroteNothing ==
  [][\A i \in DOMAIN tasks :
       (Steps(i) /\ tasks[i].error = "None" /\ tasks'[i].error # "None")
         => ~WroteRecord(i)
    ]_vars

\* attempt i stopped between update_package and its package record: its
\* commit_publish ended with a Ledger error during UpdatingIndex
StoppedBeforeRecord(i) ==
  /\ tasks[i].step = UpdateIndex
  /\ tasks[i].error = "Sqlite"

\* attempts i and j are for the same coordinates by the same user
SameCoordinates(i, j) ==
  /\ i # j
  /\ tasks[i].manifest = tasks[j].manifest
  /\ tasks[i].user = tasks[j].user

\* C32: after an attempt stopped with its entry in the Catalog Index and no
\* package record in the Ledger, the permission rule lets an attempt of the
\* same user for the same coordinates pass; and whenever such an attempt is
\* Done, the index file holds exactly one entry for the (name, version) and
\* the Ledger exactly one record for the coordinates.
C32_RetryAfterStop ==
  /\ [](\A i \in DOMAIN tasks : \A j \in DOMAIN tasks :
          (/\ SameCoordinates(i, j)
           /\ StoppedBeforeRecord(i)
           /\ tasks[j].step = Done)
            => /\ Cardinality(EntriesFor(indexRemote, tasks[j].manifest)) = 1
               /\ Cardinality(RowsFor(packages, tasks[j].manifest)) = 1)
  /\ [][\A i \in DOMAIN tasks : \A j \in DOMAIN tasks :
          (/\ SameCoordinates(i, j)
           /\ StoppedBeforeRecord(i)
           /\ ~Recorded(tasks[i].manifest)
           /\ tasks[j].pc = "check"
           /\ Steps(j))
            => /\ tasks'[j] = Permitted(tasks[j])
               /\ tasks'[j].error = "None"
       ]_vars

\* the first attempt of a Controller stopped before its record, the next
\* attempt of the same Controller, by the same user for the same coordinates,
\* is Done, with one index entry and one Ledger record written by it
C32_Witness ==
  \E i \in DOMAIN tasks : \E j \in DOMAIN tasks :
    /\ SameCoordinates(i, j)
    /\ tasks[i].ctrl = tasks[j].ctrl
    /\ StoppedBeforeRecord(i)
    /\ tasks[j].step = Done
    /\ tasks[j].error = "None"
    /\ Cardinality(EntriesFor(indexRemote, tasks[j].manifest)) = 1
    /\ Cardinality(RowsFor(packages, tasks[j].manifest)) = 1
    /\ Len(packages) = 1

====
